---- MODULE Spec2Model ----
(***************************************************************************)
(* Model of app.py: the romaneio text parser (header extraction, note      *)
(* block segmentation, per-block field parsing, number and date            *)
(* normalisation) and the batch loop of main().                            *)
(*                                                                         *)
(* A text is a sequence of characters; a character is a one-character      *)
(* string (accented letters are written as named atoms).  Offsets are      *)
(* 0-based as in Python: offset p is the position before character p+1.    *)
(* A value computed once and read several times is passed as an operator   *)
(* parameter, the way the code binds it to a local variable.               *)
(***************************************************************************)
EXTENDS Integers, Sequences, FiniteSets, TLC

VARIABLES
  pc,              \* position of the operation under way
  text,            \* parse_text_to_records: the document text
  header,          \* parse_text_to_records: result of extract_header_fields
  positions,       \* split_notes_blocks: the delimiter offsets
  usedFallback,    \* split_notes_blocks: TRUE when the "Pedido:" pattern gave the offsets
  blocks,          \* parse_text_to_records: result of split_notes_blocks
  records,         \* parse_text_to_records: the records appended so far
  uploaded_files,  \* main: the uploaded documents, in submission order
  fidx,            \* main: number of documents the for loop has handled
  dataframes,      \* main: the per-document frames appended so far
  messages,        \* main: what the loop did with each handled document
  df_all,          \* main: the concatenated frame (after pd.concat), <<>> before
  strftimePads,    \* platform: does strftime("%Y") zero-fill years below 1000
  numIn,           \* parse_br_number: argument
  numOut,          \* parse_br_number: outcome
  dateIn,          \* format_date_br: argument
  dateOut          \* format_date_br: outcome

vars == <<pc, text, header, positions, usedFallback, blocks, records,
          uploaded_files, fidx, dataframes, messages, df_all, strftimePads,
          numIn, numOut, dateIn, dateOut>>

----------------------------------------------------------------------------
(* Characters *)

NL == "\n"
a_tilde == "{a~}"
c_cedilla == "{c,}"
i_acute == "{i'}"

Digit == {"0", "1", "2", "3", "4", "5", "6", "7", "8", "9"}
UpperSeq == <<"A", "B", "C", "D", "E", "F", "G", "H", "I", "J", "K", "L", "M",
              "N", "O", "P", "Q", "R", "S", "T", "U", "V", "W", "X", "Y", "Z">>
LowerSeq == <<"a", "b", "c", "d", "e", "f", "g", "h", "i", "j", "k", "l", "m",
              "n", "o", "p", "q", "r", "s", "t", "u", "v", "w", "x", "y", "z">>
Upper == {UpperSeq[i] : i \in 1..Len(UpperSeq)}
Lower == {LowerSeq[i] : i \in 1..Len(LowerSeq)}
Accented == {a_tilde, c_cedilla, i_acute}
Space == {" ", NL, "\t"}
Punct == {"-", ":", ".", ",", "/", "$", "(", ")", "_", "+"}
Char == Digit \cup Upper \cup Lower \cup Accented \cup Space \cup Punct

\* The other case of a letter (re.IGNORECASE); a character without case is itself.
SwapCase(c) ==
  IF c \in Upper THEN LowerSeq[CHOOSE i \in 1..Len(UpperSeq) : UpperSeq[i] = c]
  ELSE IF c \in Lower THEN UpperSeq[CHOOSE i \in 1..Len(LowerSeq) : LowerSeq[i] = c]
  ELSE c

Min(S) == CHOOSE x \in S : \A y \in S : x <= y
Max(S) == CHOOSE x \in S : \A y \in S : x >= y

\* the least element of a set of offsets, -1 for the empty set
MinOrNone(S) == IF S = {} THEN -1 ELSE Min(S)

----------------------------------------------------------------------------
(* str methods *)

\* the text from its first / up to its last character that is not whitespace
FromFirst(s, I) == IF I = {} THEN <<>> ELSE SubSeq(s, Min(I), Len(s))
UpToLast(s, I) == IF I = {} THEN <<>> ELSE SubSeq(s, 1, Max(I))

\* str.lstrip(), str.rstrip(), str.strip()
lstrip(s) == FromFirst(s, {i \in 1..Len(s) : s[i] \notin Space})
rstrip(s) == UpToLast(s, {i \in 1..Len(s) : s[i] \notin Space})
strip(s) == rstrip(lstrip(s))

\* text[start:end] for 0 <= start <= end <= len(text)
Slice(s, start, end) == SubSeq(s, start + 1, end)

\* str.replace(old, new) for a one-character old; new is a string (possibly empty)
RECURSIVE replace(_, _, _)
replace(s, old, new) ==
  IF s = <<>> THEN <<>>
  ELSE (IF Head(s) = old THEN new ELSE <<Head(s)>>) \o replace(Tail(s), old, new)

\* "\n".join(parts)
RECURSIVE join(_)
join(parts) ==
  IF parts = <<>> THEN <<>>
  ELSE IF Len(parts) = 1 THEN parts[1]
  ELSE parts[1] \o <<NL>> \o join(Tail(parts))

\* str.splitlines(): the lines between "\n" characters, no empty last line
RECURSIVE splitlines(_)
RECURSIVE SplitAt(_, _)
splitlines(s) == IF s = <<>> THEN <<>> ELSE SplitAt(s, MinOrNone({i \in 1..Len(s) : s[i] = NL}))
SplitAt(s, i) ==
  IF i < 0 THEN <<s>>
  ELSE <<SubSeq(s, 1, i - 1)>> \o splitlines(SubSeq(s, i + 1, Len(s)))

----------------------------------------------------------------------------
(* The regular expressions of the program: a pattern is a sequence of      *)
(* items, matched left to right with backtracking in the priority order of *)
(* Python's re (a greedy item tries the longest repetition first, a lazy   *)
(* one the shortest).                                                      *)

Unbounded == -1

Rep(S, lo, hi) == <<[k |-> "cls", set |-> S, min |-> lo, max |-> hi, lazy |-> FALSE]>>
One(S) == Rep(S, 1, 1)
Opt(S) == Rep(S, 0, 1)
Star(S) == Rep(S, 0, Unbounded)
Plus(S) == Rep(S, 1, Unbounded)
AtLeast(S, lo) == Rep(S, lo, Unbounded)
LazyStar(S) == <<[k |-> "cls", set |-> S, min |-> 0, max |-> Unbounded, lazy |-> TRUE]>>
Open(g) == <<[k |-> "open", g |-> g]>>
Close(g) == <<[k |-> "close", g |-> g]>>
Group(g, items) == Open(g) \o items \o Close(g)
Bos == <<[k |-> "bos"]>>            \* ^ (no MULTILINE): start of the string
Eos == <<[k |-> "eos"]>>            \* $ : end of the string, or before a final "\n"
BosOrNl == <<[k |-> "bosnl"]>>      \* (?:^|\n)

\* a literal string; with icase each letter matches in both cases
Lit(str, icase) == <<[k |-> "lit", str |-> str, icase |-> icase]>>

NoMatch == [ok |-> FALSE]
NoCaps == <<<<-1, -1>>, <<-1, -1>>, <<-1, -1>>>>

\* the run from offset pos to before index stop (-1: to the end), at most hi long
CapRun(run, hi) == IF hi # Unbounded /\ run > hi THEN hi ELSE run
RunTo(s, pos, stop, hi) == CapRun((IF stop < 0 THEN Len(s) ELSE stop - 1) - pos, hi)

\* the longest run of characters of S from offset pos, at most hi of them
RunLen(s, pos, S, hi) ==
  RunTo(s, pos, MinOrNone({j \in (pos + 1)..Len(s) : s[j] \notin S}), hi)

\* does literal str stand at offset pos of s
LitAt(s, pos, str, icase) ==
  /\ pos + Len(str) <= Len(s)
  /\ \A j \in 1..Len(str) :
       \/ s[pos + j] = str[j]
       \/ icase /\ s[pos + j] = SwapCase(str[j])

\* the first successful try, in priority order
FirstOk(tries, oks) == IF oks = {} THEN NoMatch ELSE tries[Min(oks)]
FirstOf(tries) == FirstOk(tries, {n \in 1..Len(tries) : tries[n].ok})

\* the first of two alternatives that succeeds
OrElse(first, second) == IF first.ok THEN first ELSE second

RECURSIVE MatchAt(_, _, _, _, _)
RECURSIVE Repeat(_, _, _, _, _, _)

\* items i.. of pat against s from offset pos; caps are the groups so far
MatchAt(pat, i, s, pos, caps) ==
  IF i > Len(pat) THEN [ok |-> TRUE, end |-> pos, caps |-> caps]
  ELSE
    CASE pat[i].k = "open" ->
           MatchAt(pat, i + 1, s, pos, [caps EXCEPT ![pat[i].g] = <<pos, -1>>])
      [] pat[i].k = "close" ->
           MatchAt(pat, i + 1, s, pos, [caps EXCEPT ![pat[i].g] = <<caps[pat[i].g][1], pos>>])
      [] pat[i].k = "bos" ->
           IF pos = 0 THEN MatchAt(pat, i + 1, s, pos, caps) ELSE NoMatch
      [] pat[i].k = "eos" ->
           IF pos = Len(s) \/ (pos = Len(s) - 1 /\ s[Len(s)] = NL)
           THEN MatchAt(pat, i + 1, s, pos, caps) ELSE NoMatch
      [] pat[i].k = "bosnl" ->
           OrElse(IF pos = 0 THEN MatchAt(pat, i + 1, s, pos, caps) ELSE NoMatch,
                  IF pos < Len(s) /\ s[pos + 1] = NL
                  THEN MatchAt(pat, i + 1, s, pos + 1, caps) ELSE NoMatch)
      [] pat[i].k = "lit" ->
           IF LitAt(s, pos, pat[i].str, pat[i].icase)
           THEN MatchAt(pat, i + 1, s, pos + Len(pat[i].str), caps) ELSE NoMatch
      [] pat[i].k = "cls" ->
           Repeat(pat, i, s, pos, caps, RunLen(s, pos, pat[i].set, pat[i].max))

\* item i of pat, a class of which run characters stand at pos: its repetition
\* counts in priority order (greedy: the longest first, lazy: the shortest
\* first); the first count after which the rest of the pattern matches wins
Repeat(pat, i, s, pos, caps, run) ==
  IF run < pat[i].min THEN NoMatch
  ELSE IF run = pat[i].min THEN MatchAt(pat, i + 1, s, pos + run, caps)
  ELSE FirstOf([n \in 1..(run - pat[i].min + 1) |->
                  MatchAt(pat, i + 1, s,
                          pos + (IF pat[i].lazy THEN pat[i].min + n - 1 ELSE run - n + 1),
                          caps)] \o <<>>)

\* the match object of a successful MatchAt from offset start
MatchObject(r, start) ==
  IF r.ok THEN [ok |-> TRUE, start |-> start, end |-> r.end, caps |-> r.caps] ELSE NoMatch

\* re.match(pat, s)
match(pat, s) == MatchObject(MatchAt(pat, 1, s, 0, NoCaps), 0)

\* the match starting at offset start, no match when start is -1
MatchFrom(pat, s, start) ==
  IF start < 0 THEN NoMatch ELSE MatchObject(MatchAt(pat, 1, s, start, NoCaps), start)

\* pattern.search(s, from): the leftmost match starting at offset from or later
searchFrom(pat, s, from) ==
  MatchFrom(pat, s, MinOrNone({p \in from..Len(s) : MatchAt(pat, 1, s, p, NoCaps).ok}))

\* re.search(pat, s)
search(pat, s) == searchFrom(pat, s, 0)

\* pattern.finditer(s): the successive non-overlapping matches, left to right
RECURSIVE finditerFrom(_, _, _)
RECURSIVE MatchAndRest(_, _, _)
finditerFrom(pat, s, from) == MatchAndRest(pat, s, searchFrom(pat, s, from))
MatchAndRest(pat, s, m) ==
  IF ~m.ok THEN <<>>
  ELSE <<m>> \o finditerFrom(pat, s, IF m.end > m.start THEN m.end ELSE m.end + 1)

finditer(pat, s) == finditerFrom(pat, s, 0)

\* match.group(g)
group(m, s, g) == Slice(s, m.caps[g][1], m.caps[g][2])

----------------------------------------------------------------------------
(* Python values: a tagged record, so that a string, a float and None can  *)
(* be told apart and compared.                                             *)

NoneV == [t |-> "NoneType", v |-> <<>>]
Str(s) == [t |-> "str", v |-> s]
\* a finite float mant * 10^exp, mant without trailing zeros (0 is <<0, 0>>)
Float(mant, exp) == [t |-> "float", v |-> <<"finite", mant, exp>>]
Inf(neg) == [t |-> "float", v |-> <<IF neg THEN "-inf" ELSE "inf", 0, 0>>]
NaN == [t |-> "float", v |-> <<"nan", 0, 0>>]

\* the outcome of a call: a returned value, or an exception that left the function
Return(x) == [raised |-> FALSE, val |-> x]
Raise == [raised |-> TRUE, val |-> NoneV]

\* the outcome of an operation that may raise ValueError
ValueError == [ok |-> FALSE]
Ok(x) == [ok |-> TRUE, val |-> x]

----------------------------------------------------------------------------
(* float(str): the literals Python's float() accepts                       *)

DigitSeq == <<"0", "1", "2", "3", "4", "5", "6", "7", "8", "9">>
DigitVal(c) == (CHOOSE n \in 1..Len(DigitSeq) : DigitSeq[n] = c) - 1

RECURSIVE ToInt(_)
ToInt(ds) == IF ds = <<>> THEN 0 ELSE 10 * ToInt(SubSeq(ds, 1, Len(ds) - 1)) + DigitVal(ds[Len(ds)])

IsDigit(c) == c \in Digit
DigitsOf(s) == SelectSeq(s, IsDigit)

\* digit (["_"] digit)*
IsDigitPart(s) ==
  /\ s # <<>>
  /\ \A i \in 1..Len(s) : s[i] \in Digit \cup {"_"}
  /\ s[1] \in Digit /\ s[Len(s)] \in Digit
  /\ \A i \in 1..(Len(s) - 1) : ~(s[i] = "_" /\ s[i + 1] = "_")

\* first index of a character of S in s, 0 when there is none
IndexOf(s, S) == MinOrNone({i \in 1..Len(s) : s[i] \in S}) + (IF \A i \in 1..Len(s) : s[i] \notin S THEN 1 ELSE 0)

RECURSIVE Normalize(_, _)
Normalize(mant, exp) ==
  IF mant = 0 THEN <<0, 0>>
  ELSE IF mant % 10 = 0 THEN Normalize(mant \div 10, exp + 1)
  ELSE <<mant, exp>>

RECURSIVE NumDigits(_)
NumDigits(n) == IF n < 10 THEN 1 ELSE 1 + NumDigits(n \div 10)

\* largest and smallest decimal exponents of a double
MaxExp10 == 308
MinExp10 == -324

ToLower(s) == [i \in 1..Len(s) |-> IF s[i] \in Upper THEN SwapCase(s[i]) ELSE s[i]]

\* a parsed finite value n = <<mant, exp>>: out of the double range it is inf or 0
FloatRange(neg, n) ==
  IF n[1] = 0 THEN Ok(Float(0, 0))
  ELSE IF n[2] + NumDigits(n[1]) - 1 > MaxExp10 THEN Ok(Inf(neg))
  ELSE IF n[2] + NumDigits(n[1]) - 1 < MinExp10 THEN Ok(Float(0, 0))
  ELSE Ok(Float(IF neg THEN 0 - n[1] ELSE n[1], n[2]))

\* integer part ip, fraction part fp, and the exponent's digits xd (xneg: "-")
FloatValue(neg, ip, fp, hasExp, xneg, xd) ==
  IF ~ /\ ip # <<>> \/ fp # <<>>
       /\ ip = <<>> \/ IsDigitPart(ip)
       /\ fp = <<>> \/ IsDigitPart(fp)
       /\ ~hasExp \/ IsDigitPart(xd)
  THEN ValueError
  ELSE FloatRange(neg, Normalize(ToInt(DigitsOf(ip) \o DigitsOf(fp)),
                                 (IF xneg THEN 0 - ToInt(DigitsOf(xd)) ELSE ToInt(DigitsOf(xd)))
                                   - Len(DigitsOf(fp))))

\* mantissa m with its "." at index dot (0: none), exponent text x after the "e"
FloatParts(neg, m, dot, hasExp, x) ==
  FloatValue(neg,
             IF dot = 0 THEN m ELSE SubSeq(m, 1, dot - 1),
             IF dot = 0 THEN <<>> ELSE SubSeq(m, dot + 1, Len(m)),
             hasExp,
             x # <<>> /\ x[1] = "-",
             IF x # <<>> /\ x[1] \in {"+", "-"} THEN Tail(x) ELSE x)

\* the mantissa m and the exponent text x
FloatMantissa(neg, m, hasExp, x) == FloatParts(neg, m, IndexOf(m, {"."}), hasExp, x)

\* the unsigned text u with its first "e" or "E" at index e (0: none)
FloatExponent(neg, u, e) ==
  FloatMantissa(neg, IF e = 0 THEN u ELSE SubSeq(u, 1, e - 1), e # 0,
                IF e = 0 THEN <<>> ELSE SubSeq(u, e + 1, Len(u)))

\* the text u after the sign
FloatUnsigned(neg, u) ==
  IF ToLower(u) \in {<<"i", "n", "f">>, <<"i", "n", "f", "i", "n", "i", "t", "y">>}
  THEN Ok(Inf(neg))
  ELSE IF ToLower(u) = <<"n", "a", "n">> THEN Ok(NaN)
  ELSE FloatExponent(neg, u, IndexOf(u, {"e", "E"}))

\* the stripped text t
FloatStripped(t) ==
  FloatUnsigned(t # <<>> /\ t[1] = "-",
                IF t # <<>> /\ t[1] \in {"+", "-"} THEN Tail(t) ELSE t)

\* float(s) for a string s: Ok(value) or ValueError
float(s) == FloatStripped(strip(s))

----------------------------------------------------------------------------
(* parse_br_number *)

\* try: return float(normalized) / except ValueError: return None
FloatOrNone(r) == IF r.ok THEN Return(r.val) ELSE Return(NoneV)

\* NormalizeSeparators with the two replacements in the other order
SeparatorsSwapped(txt) == replace(replace(txt, ",", <<".">>), ".", <<>>)

\* text.replace(".", "").replace(",", ".")
NormalizeSeparators(txt) == replace(replace(txt, ".", <<>>), ",", <<".">>)

\* the stripped text of the argument
ParseStripped(txt) ==
  IF txt = <<>> THEN Return(NoneV) ELSE FloatOrNone(float(NormalizeSeparators(txt)))

\* the call parse_br_number(value), value None or a string: what it returns
parse_br_number_call(value) ==
  IF value = NoneV THEN Return(NoneV) ELSE ParseStripped(strip(value.v))

\* parse_br_number(value) where it is called inside parse_block
parse_br_number(value) == parse_br_number_call(value).val

----------------------------------------------------------------------------
(* datetime.strptime / strftime for the two formats of format_date_br      *)

\* the alternatives of the directives' regular expressions, in their order
DayAlts == << One({"3"}) \o One({"0", "1"}),
              One({"1", "2"}) \o One(Digit),
              One({"0"}) \o One(Digit \ {"0"}),
              One(Digit \ {"0"}),
              One({" "}) \o One(Digit \ {"0"}) >>
MonthAlts == << One({"1"}) \o One({"0", "1", "2"}),
                One({"0"}) \o One(Digit \ {"0"}),
                One(Digit \ {"0"}) >>

\* the number of digits of %Y and of %y
YearWidth(fourDigits) == IF fourDigits THEN 4 ELSE 2

\* the regular expression of "%d/%m/%Y" (fourDigits) or "%d/%m/%y", with
\* alternatives number d and m chosen for the day and the month
DatePattern(d, m, fourDigits) ==
  Group(1, DayAlts[d]) \o One({"/"}) \o Group(2, MonthAlts[m]) \o One({"/"})
    \o Group(3, Rep(Digit, YearWidth(fourDigits), YearWidth(fourDigits)))

\* combination number o of the alternatives, in backtracking order: the day's
\* alternative first, then the month's
ComboPattern(o, fourDigits) ==
  DatePattern(((o - 1) \div Len(MonthAlts)) + 1, ((o - 1) % Len(MonthAlts)) + 1, fourDigits)

MatchCombo(s, o, fourDigits) ==
  IF o < 0 THEN NoMatch ELSE match(ComboPattern(o, fourDigits), s)

\* the match of the format's expression at the start of s: the first
\* combination of alternatives, in backtracking order, that matches
DateMatch(s, fourDigits) ==
  MatchCombo(s, MinOrNone({o \in 1..(Len(DayAlts) * Len(MonthAlts)) :
                             match(ComboPattern(o, fourDigits), s).ok}), fourDigits)

IsLeap(y) == (y % 4 = 0 /\ y % 100 # 0) \/ y % 400 = 0
DaysInMonth(y, m) ==
  IF m = 2 THEN (IF IsLeap(y) THEN 29 ELSE 28)
  ELSE IF m \in {4, 6, 9, 11} THEN 30 ELSE 31

\* datetime(year, month, day): ValueError for a date that does not exist
MakeDate(year, month, day) ==
  IF year < 1 \/ day > DaysInMonth(year, month) THEN ValueError
  ELSE Ok(<<year, month, day>>)

\* %y: 69..99 are 1969..1999, 00..68 are 2000..2068
Century(yy) == IF yy <= 68 THEN 2000 + yy ELSE 1900 + yy

\* the date of match r of the format's expression on s
DateOf(r, s, fourDigits) ==
  IF ~r.ok THEN ValueError
  ELSE IF r.end # Len(s) THEN ValueError           \* unconverted data remains
  ELSE MakeDate(IF fourDigits THEN ToInt(group(r, s, 3)) ELSE Century(ToInt(group(r, s, 3))),
                ToInt(group(r, s, 2)),
                ToInt(DigitsOf(group(r, s, 1))))

\* datetime.strptime(s, fmt): Ok(<<year, month, day>>) or ValueError
strptime(s, fourDigits) == DateOf(DateMatch(s, fourDigits), s, fourDigits)

RECURSIVE IntDigits(_)
IntDigits(n) == IF n < 10 THEN <<DigitSeq[n + 1]>> ELSE IntDigits(n \div 10) \o <<DigitSeq[(n % 10) + 1]>>

RECURSIVE ZeroFill(_, _)
ZeroFill(ds, width) == IF Len(ds) >= width THEN ds ELSE ZeroFill(<<"0">> \o ds, width)

\* date.strftime("%d/%m/%Y"); pads: the platform's %Y zero-fills a year below 1000
strftime(date, pads) ==
  ZeroFill(IntDigits(date[3]), 2) \o <<"/">> \o ZeroFill(IntDigits(date[2]), 2) \o <<"/">>
    \o (IF pads THEN ZeroFill(IntDigits(date[1]), 4) ELSE IntDigits(date[1]))

\* the loop over the two formats: long and short are the outcomes of strptime
FormatParsed(long, short, s, pads) ==
  IF long.ok THEN Return(Str(strftime(long.val, pads)))
  ELSE IF short.ok THEN Return(Str(strftime(short.val, pads)))
  ELSE Return(Str(strip(s)))

\* the call format_date_br(date_str), date_str a string or None
format_date_br_call(date_str, pads) ==
  IF date_str = NoneV \/ date_str.v = <<>> THEN Return(Str(<<>>))
  ELSE FormatParsed(strptime(date_str.v, TRUE), strptime(date_str.v, FALSE), date_str.v, pads)

\* format_date_br(date_str) where main applies it to a column
format_date_br(date_str, pads) == format_date_br_call(date_str, pads).val

----------------------------------------------------------------------------
(* The fixed columns *)

COLUMNS == <<"rota", "data_emissao", "data_previsao", "motorista", "veiculo", "carga",
             "numero_nota", "codigo_cliente", "nome_cliente", "pedido", "cidade",
             "peso_pedido", "endereco", "total_nota", "forma_recebimento",
             "valor_recebimento">>
ColumnSet == {COLUMNS[i] : i \in 1..Len(COLUMNS)}

\* {**f, **g}: the keys of both, g's value where both have the key
Merge(f, g) ==
  [k \in (DOMAIN f) \cup (DOMAIN g) |-> IF k \in DOMAIN g THEN g[k] ELSE f[k]]

----------------------------------------------------------------------------
(* extract_header_fields *)

NotNL == Char \ {NL}
NumChars == Digit \cup {".", ","}

\* ^\d{2,4}\s+[A-Za-z\u00c0-\u00ff0-9 .,\-()]+$
rota_pattern ==
  Bos \o Rep(Digit, 2, 4) \o Plus(Space)
      \o Plus(Upper \cup Lower \cup Accented \cup Digit \cup {" ", ".", ",", "-", "(", ")"})
      \o Eos

\* Emiss[a\u00e3]o:\s*([\d/]{8,10})
emissao_pattern ==
  Lit(<<"E", "m", "i", "s", "s">>, TRUE) \o One({"a", "A", a_tilde}) \o Lit(<<"o", ":">>, TRUE)
    \o Star(Space) \o Group(1, Rep(Digit \cup {"/"}, 8, 10))

\* Previs[a\u00e3]o:\s*([\d/]{8,10})
previsao_pattern ==
  Lit(<<"P", "r", "e", "v", "i", "s">>, TRUE) \o One({"a", "A", a_tilde}) \o Lit(<<"o", ":">>, TRUE)
    \o Star(Space) \o Group(1, Rep(Digit \cup {"/"}, 8, 10))

\* Motorista:\s*([^\n]+)
motorista_pattern ==
  Lit(<<"M", "o", "t", "o", "r", "i", "s", "t", "a", ":">>, TRUE)
    \o Star(Space) \o Group(1, Plus(NotNL))

\* Ve[i\u00ed]culo:\s*([^\n]+)
veiculo_pattern ==
  Lit(<<"V", "e">>, TRUE) \o One({"i", "I", i_acute}) \o Lit(<<"c", "u", "l", "o", ":">>, TRUE)
    \o Star(Space) \o Group(1, Plus(NotNL))

\* Carga[:\s]+([0-9\.,]+)
carga_pattern ==
  Lit(<<"C", "a", "r", "g", "a">>, TRUE) \o Plus(Space \cup {":"}) \o Group(1, Plus(NumChars))

\* match.group(1).strip() if match else ""
GroupOrEmpty(m, s) == IF m.ok THEN strip(group(m, s, 1)) ELSE <<>>

\* the local find(pattern) of extract_header_fields and of parse_block
find(pattern, s) == GroupOrEmpty(search(pattern, s), s)

\* [line.strip() for line in text.splitlines() if line.strip()]
NonEmpty(s) == s # <<>>
StrippedLines(ls) == SelectSeq([i \in 1..Len(ls) |-> strip(ls[i])], NonEmpty)

\* the first line matching rota_pattern, or ""
FirstLine(ls, i) == IF i < 0 THEN <<>> ELSE ls[i]
FirstRota(ls) == FirstLine(ls, MinOrNone({i \in 1..Len(ls) : match(rota_pattern, ls[i]).ok}))

extract_header_fields(txt) ==
  [rota |-> Str(FirstRota(StrippedLines(splitlines(txt)))),
   data_emissao |-> Str(find(emissao_pattern, txt)),
   data_previsao |-> Str(find(previsao_pattern, txt)),
   motorista |-> Str(find(motorista_pattern, txt)),
   veiculo |-> Str(find(veiculo_pattern, txt)),
   carga |-> Str(find(carga_pattern, txt))]

----------------------------------------------------------------------------
(* split_notes_blocks *)

\* (?:^|\n)\s*(\d{3,5}-\d{3,})
note_pattern ==
  BosOrNl \o Star(Space) \o Group(1, Rep(Digit, 3, 5) \o One({"-"}) \o AtLeast(Digit, 3))

\* (?:^|\n)\s*Pedido:\s*\d+
pedido_pattern ==
  BosOrNl \o Star(Space) \o Lit(<<"P", "e", "d", "i", "d", "o", ":">>, FALSE)
    \o Star(Space) \o Plus(Digit)

GroupStarts(ms) == [i \in 1..Len(ms) |-> ms[i].caps[1][1]]
MatchStarts(ms) == [i \in 1..Len(ms) |-> ms[i].start]

\* [m.start(1) for m in note_pattern.finditer(text)]
NotePositions(txt) == GroupStarts(finditer(note_pattern, txt))

\* [m.start() for m in pedido_pattern.finditer(text)]
PedidoPositions(txt) == MatchStarts(finditer(pedido_pattern, txt))

\* OrFallback without the fallback: the note ids' offsets whatever they are
NeverFallback(txt, primary) == [positions |-> primary, fallback |-> FALSE]

\* "if not positions": the note ids' offsets, or failing any the "Pedido:" lines'
OrFallback(txt, primary) ==
  IF primary # <<>> THEN [positions |-> primary, fallback |-> FALSE]
  ELSE [positions |-> PedidoPositions(txt), fallback |-> TRUE]

\* the offsets split_notes_blocks cuts at
SplitPositions(txt) == OrFallback(txt, NotePositions(txt))

\* BlockEnd with every block running to the end of the text
BlockEndOfText(txt, ps, idx) == Len(txt)

\* the end of the block that starts at offset number idx
BlockEnd(txt, ps, idx) == IF idx + 1 <= Len(ps) THEN ps[idx + 1] ELSE Len(txt)

\* the blocks cut at offsets ps
BlocksAt(txt, ps) ==
  [idx \in 1..Len(ps) |-> strip(Slice(txt, ps[idx], BlockEnd(txt, ps, idx)))]

split_notes_blocks(txt) == BlocksAt(txt, SplitPositions(txt).positions)

----------------------------------------------------------------------------
(* parse_block *)

\* ^\s*(\d{3,5}-\d+)
numero_nota_pattern ==
  Bos \o Star(Space) \o Group(1, Rep(Digit, 3, 5) \o One({"-"}) \o Plus(Digit))

\* Nome:\s*([^\n]+)
nome_pattern ==
  Lit(<<"N", "o", "m", "e", ":">>, TRUE) \o Star(Space) \o Group(1, Plus(NotNL))

\* (\d+)\s*-\s*(.+)
code_pattern ==
  Group(1, Plus(Digit)) \o Star(Space) \o One({"-"}) \o Star(Space) \o Group(2, Plus(NotNL))

\* Pedido:\s*([^\n]+)
pedido_field_pattern ==
  Lit(<<"P", "e", "d", "i", "d", "o", ":">>, TRUE) \o Star(Space) \o Group(1, Plus(NotNL))

\* Cidade:\s*([^\n]+)
cidade_pattern ==
  Lit(<<"C", "i", "d", "a", "d", "e", ":">>, TRUE) \o Star(Space) \o Group(1, Plus(NotNL))

\* Peso\s*Pedido:\s*([0-9\.,]+)
peso_pattern ==
  Lit(<<"P", "e", "s", "o">>, TRUE) \o Star(Space)
    \o Lit(<<"P", "e", "d", "i", "d", "o", ":">>, TRUE) \o Star(Space)
    \o Group(1, Plus(NumChars))

\* Endere[c\u00e7]o:\s*([^\n]+)
endereco_pattern ==
  Lit(<<"E", "n", "d", "e", "r", "e">>, TRUE) \o One({"c", "C", c_cedilla})
    \o Lit(<<"o", ":">>, TRUE) \o Star(Space) \o Group(1, Plus(NotNL))

\* Total\s+da\s+Nota:\s*R?\$?\s*([0-9\.,]+)
total_pattern ==
  Lit(<<"T", "o", "t", "a", "l">>, TRUE) \o Plus(Space) \o Lit(<<"d", "a">>, TRUE)
    \o Plus(Space) \o Lit(<<"N", "o", "t", "a", ":">>, TRUE) \o Star(Space)
    \o Opt({"R", "r"}) \o Opt({"$"}) \o Star(Space) \o Group(1, Plus(NumChars))

\* Duplicata\s+a\s+Receber\s*(.*?)\s*Valor:\s*R?\$?\s*([0-9\.,]+)   (DOTALL)
dup_pattern ==
  Lit(<<"D", "u", "p", "l", "i", "c", "a", "t", "a">>, TRUE) \o Plus(Space)
    \o Lit(<<"a">>, TRUE) \o Plus(Space) \o Lit(<<"R", "e", "c", "e", "b", "e", "r">>, TRUE)
    \o Star(Space) \o Open(1) \o LazyStar(Char) \o Close(1) \o Star(Space)
    \o Lit(<<"V", "a", "l", "o", "r", ":">>, TRUE) \o Star(Space)
    \o Opt({"R", "r"}) \o Opt({"$"}) \o Star(Space) \o Group(2, Plus(NumChars))

\* codigo_cliente and nome_cliente from nome_line and its code_match
ClientFields(nome_line, code_match) ==
  IF nome_line = <<>> THEN <<Str(<<>>), Str(<<>>)>>
  ELSE IF code_match.ok
       THEN <<Str(strip(group(code_match, nome_line, 1))),
              Str(strip(group(code_match, nome_line, 2)))>>
  ELSE <<Str(<<>>), Str(nome_line)>>

ClientOf(nome_line) == ClientFields(nome_line, match(code_pattern, nome_line))

\* DupFields with both fields None when "Duplicata a Receber" is not found
DupFieldsNone(dup_match, block) ==
  IF dup_match.ok
  THEN <<Str(strip(group(dup_match, block, 1))),
         parse_br_number(Str(group(dup_match, block, 2)))>>
  ELSE <<NoneV, NoneV>>

\* forma_recebimento and valor_recebimento from dup_match
DupFields(dup_match, block) ==
  IF dup_match.ok
  THEN <<Str(strip(group(dup_match, block, 1))),
         parse_br_number(Str(group(dup_match, block, 2)))>>
  ELSE <<Str(<<>>), NoneV>>

\* the ten entries parse_block writes into the record
BlockRecord(block, client, dup) ==
  [numero_nota |-> Str(find(numero_nota_pattern, block)),
   codigo_cliente |-> client[1],
   nome_cliente |-> client[2],
   pedido |-> Str(find(pedido_field_pattern, block)),
   cidade |-> Str(find(cidade_pattern, block)),
   peso_pedido |-> parse_br_number(Str(find(peso_pattern, block))),
   endereco |-> Str(find(endereco_pattern, block)),
   total_nota |-> parse_br_number(Str(find(total_pattern, block))),
   forma_recebimento |-> dup[1],
   valor_recebimento |-> dup[2]]

\* the fields parse_block reads from the block
BlockFields(block) ==
  BlockRecord(block, ClientOf(find(nome_pattern, block)),
              DupFields(search(dup_pattern, block), block))

\* FillMissing building a new record of the missing keys only
FillOnlyMissing(record) == [k \in ColumnSet \ DOMAIN record |-> NoneV]

\* the loop "for key in COLUMNS: if key not in record: record[key] = None"
FillMissing(record) == Merge(record, [k \in ColumnSet \ DOMAIN record |-> NoneV])

parse_block(block, hdr) == FillMissing(Merge(hdr, BlockFields(block)))

\* the loop "for block in blocks: records.append(parse_block(block, header))"
RecordsOf(bs, hdr) == [i \in 1..Len(bs) |-> parse_block(bs[i], hdr)]

parse_text_to_records(txt) == RecordsOf(split_notes_blocks(txt), extract_header_fields(txt))

----------------------------------------------------------------------------
(* Variables of the operations a specification does not exercise *)

textVars == <<text, header, positions, usedFallback, blocks, records>>
mainVars == <<uploaded_files, fidx, dataframes, messages, df_all>>
numVars == <<numIn, numOut>>
dateVars == <<dateIn, dateOut>>

IdleText == /\ text = <<>> /\ header = NoneV /\ positions = <<>>
            /\ usedFallback = FALSE /\ blocks = <<>> /\ records = <<>>
IdleMain == /\ uploaded_files = <<>> /\ fidx = 0 /\ dataframes = <<>>
            /\ messages = <<>> /\ df_all = <<>>
IdleNum == numIn = NoneV /\ numOut = Return(NoneV)
IdleDate == dateIn = NoneV /\ dateOut = Return(NoneV)

\* all strings over alphabet of length at most n
StringsUpTo(alphabet, n) == UNION {[1..k -> alphabet] : k \in 0..n}

----------------------------------------------------------------------------
(* parse_br_number on its own *)

MaxNumLen == 3
NumAlphabet == {"1", "2", ".", ",", " ", "a", "n", "e", "-"}
NumExamples ==
  { <<"5", ".", "4", "5", "8", ",", "9", "6">>,
    <<"1", ".", "2", "3", "4", ".", "5", "6", "7", ",", "8", "9">>,
    <<"a", "b", "c">>,
    <<"1", ",", "2", ",", "3">>,
    <<" ", "1", "0", ",", "5", NL>>,
    <<"i", "n", "f">>,
    <<"-", "I", "n", "f", "i", "n", "i", "t", "y">>,
    <<"1", "_", "0">> }
NumInputs ==
  {NoneV} \cup {Str(t) : t \in StringsUpTo(NumAlphabet, MaxNumLen) \cup NumExamples}

InitNumber ==
  /\ pc = "num_call" /\ numIn \in NumInputs /\ numOut = Return(NoneV)
  /\ strftimePads = TRUE /\ IdleText /\ IdleMain /\ IdleDate

ParseBrNumber ==
  /\ pc = "num_call"
  /\ numOut' = parse_br_number_call(numIn)
  /\ pc' = "num_done"
  /\ UNCHANGED <<numIn, strftimePads, textVars, mainVars, dateVars>>

NextNumber == ParseBrNumber
SpecNumber == InitNumber /\ [][NextNumber]_vars

----------------------------------------------------------------------------
(* format_date_br on its own *)

DayTokens == {<<"0", "1">>, <<"1">>, <<"2", "9">>, <<"3", "1">>, <<"3", "2">>, <<"0", "0">>}
MonthTokens == {<<"0", "2">>, <<"2">>, <<"1", "2">>, <<"1", "3">>, <<"0", "4">>}
YearTokens == {<<"2", "0", "2", "4">>, <<"2", "0", "2", "3">>, <<"2", "4">>, <<"6", "9">>,
               <<"0", "9", "9", "9">>, <<"0", "0", "0", "0">>, <<"2", "0", "2">>}
Pads == {<<>>, <<" ">>}
DateTexts ==
  {l \o d \o <<sep>> \o m \o <<"/">> \o y \o t :
     l \in Pads, d \in DayTokens, sep \in {"/", "-"}, m \in MonthTokens,
     y \in YearTokens, t \in Pads}
  \cup {<<>>, <<"x", "y", "z">>, <<" ", "x", "y", "z", " ">>,
        <<"n", "o", "t", "-", "a", "-", "d", "a", "t", "e">>}
DateInputs == {NoneV} \cup {Str(t) : t \in DateTexts}

InitDate ==
  /\ pc = "date_call" /\ dateIn \in DateInputs /\ dateOut = Return(NoneV)
  /\ strftimePads \in BOOLEAN /\ IdleText /\ IdleMain /\ IdleNum

FormatDateBr ==
  /\ pc = "date_call"
  /\ dateOut' = format_date_br_call(dateIn, strftimePads)
  /\ pc' = "date_done"
  /\ UNCHANGED <<dateIn, strftimePads, textVars, mainVars, numVars>>

NextDate == FormatDateBr
SpecDate == InitDate /\ [][NextDate]_vars

----------------------------------------------------------------------------
(* parse_text_to_records, statement by statement *)

MaxLines == 3
LinePool ==
  { <<"7", "4", "8", "-", "1", "2", "2", "6", "3">>,
    <<"1", "5", "5", "2", "-", "2", "4", "9", "9", "5", " ", "C", "i", "d", "a", "d", "e",
      ":", " ", "R", "i", "o">>,
    <<"P", "e", "d", "i", "d", "o", ":", " ", "9", "9">>,
    <<"N", "o", "m", "e", ":">>,
    <<"N", "o", "m", "e", ":", " ", "7", " ", "-", " ", "A", "n", "a">>,
    <<"M", "o", "t", "o", "r", "i", "s", "t", "a", ":">>,
    <<"P", "e", "s", "o", " ", "P", "e", "d", "i", "d", "o", ":", " ", "1", ",", "5">>,
    <<"1", "2", " ", "S", "U", "L">>,
    <<"D", "u", "p", "l", "i", "c", "a", "t", "a", " ", "a", " ", "R", "e", "c", "e", "b",
      "e", "r", " ", "P", "I", "X", " ", "V", "a", "l", "o", "r", ":", " ", "2", ",", "5">>,
    <<"T", "o", "t", "a", "l", " ", "d", "a", " ", "N", "o", "t", "a", ":", " ", "R", "$",
      " ", "1", ".", "2", "3", "4", ",", "5", "6">> }
TextInputs == {join(ls) : ls \in StringsUpTo(LinePool, MaxLines)}

InitText ==
  /\ pc = "text_start" /\ text \in TextInputs /\ header = NoneV /\ positions = <<>>
  /\ usedFallback = FALSE /\ blocks = <<>> /\ records = <<>>
  /\ strftimePads = TRUE /\ IdleMain /\ IdleNum /\ IdleDate

\* header = extract_header_fields(text)
ExtractHeader ==
  /\ pc = "text_start"
  /\ header' = extract_header_fields(text)
  /\ pc' = "text_split"
  /\ UNCHANGED <<text, positions, usedFallback, blocks, records, strftimePads,
                 mainVars, numVars, dateVars>>

\* blocks = split_notes_blocks(text); records = []
SplitBlocks ==
  /\ pc = "text_split"
  /\ positions' = SplitPositions(text).positions
  /\ usedFallback' = SplitPositions(text).fallback
  /\ blocks' = split_notes_blocks(text)
  /\ pc' = "text_loop"
  /\ UNCHANGED <<text, header, records, strftimePads, mainVars, numVars, dateVars>>

\* one iteration of "for block in blocks"
AppendRecord ==
  /\ pc = "text_loop" /\ Len(records) < Len(blocks)
  /\ records' = Append(records, parse_block(blocks[Len(records) + 1], header))
  /\ UNCHANGED <<pc, text, header, positions, usedFallback, blocks, strftimePads,
                 mainVars, numVars, dateVars>>

\* return records
ReturnRecords ==
  /\ pc = "text_loop" /\ Len(records) = Len(blocks)
  /\ pc' = "text_done"
  /\ UNCHANGED <<textVars, strftimePads, mainVars, numVars, dateVars>>

NextText == ExtractHeader \/ SplitBlocks \/ AppendRecord \/ ReturnRecords
SpecText == InitText /\ [][NextText]_vars

----------------------------------------------------------------------------
(* Properties of parse_text_to_records, stated on the characters of the    *)
(* text and not through the regular-expression matcher                     *)

AllIn(s, lo, hi, S) == \A j \in lo..hi : s[j] \in S

\* offset p is at the start of a line, or only whitespace separates it from one
AtLineStart(s, p) ==
  \/ AllIn(s, 1, p, Space)
  \/ \E q \in 1..p : s[q] = NL /\ AllIn(s, q, p, Space)

\* a note-id token digits{3,5}-digits{3,} stands at offset p
NoteIdAt(s, p) ==
  \E a \in 3..5 :
    /\ p + a + 4 <= Len(s)
    /\ AllIn(s, p + 1, p + a, Digit)
    /\ s[p + a + 1] = "-"
    /\ AllIn(s, p + a + 2, p + a + 4, Digit)

\* the offsets of the line-start note-id tokens
NoteIdStarts(s) == {p \in 0..Len(s) : AtLineStart(s, p) /\ NoteIdAt(s, p)}

PedidoLabel == <<"P", "e", "d", "i", "d", "o", ":">>

\* "Pedido:" stands at offset p, followed by optional whitespace and a digit
PedidoAt(s, p) ==
  /\ p + Len(PedidoLabel) <= Len(s)
  /\ SubSeq(s, p + 1, p + Len(PedidoLabel)) = PedidoLabel
  /\ \E d \in (p + Len(PedidoLabel) + 1)..Len(s) :
       s[d] \in Digit /\ AllIn(s, p + Len(PedidoLabel) + 1, d - 1, Space)

\* the offsets of the line-start "Pedido: <digits>" occurrences
PedidoStarts(s) == {p \in 0..Len(s) : AtLineStart(s, p) /\ PedidoAt(s, p)}

\* the elements of a set of offsets in ascending order
Ascending(S) ==
  [i \in 1..Cardinality(S) |-> CHOOSE x \in S : Cardinality({y \in S : y < x}) = i - 1]

Range(f) == {f[i] : i \in DOMAIN f}

\* b is s[lo:hi] without its leading and trailing whitespace
IsTrimOf(b, s, lo, hi) ==
  \E a \in lo..hi : \E c \in a..hi :
    /\ b = SubSeq(s, a + 1, c)
    /\ AllIn(s, lo + 1, a, Space)
    /\ AllIn(s, c + 1, hi, Space)
    /\ b # <<>> => b[1] \notin Space /\ b[Len(b)] \notin Space

\* the pieces of s cut at the ascending offsets ps, each trimmed
CutsAt(bs, s, ps) ==
  /\ Len(bs) = Len(ps)
  /\ \A i \in 1..Len(ps) :
       IsTrimOf(bs[i], s, ps[i], IF i < Len(ps) THEN ps[i + 1] ELSE Len(s))

SplitDone == pc \in {"text_loop", "text_done"}

NumericColumns == {"peso_pedido", "total_nota", "valor_recebimento"}

\* the spellings (letter case aside) of the label each line-valued field follows
BlockLabels ==
  [pedido |-> {PedidoLabel},
   cidade |-> {<<"C", "i", "d", "a", "d", "e", ":">>},
   endereco |-> {<<"E", "n", "d", "e", "r", "e", "c", "o", ":">>,
                 <<"E", "n", "d", "e", "r", "e", c_cedilla, "o", ":">>},
   nome_cliente |-> {<<"N", "o", "m", "e", ":">>}]
HeaderLabels ==
  [motorista |-> {<<"M", "o", "t", "o", "r", "i", "s", "t", "a", ":">>},
   veiculo |-> {<<"V", "e", "i", "c", "u", "l", "o", ":">>,
                <<"V", "e", i_acute, "c", "u", "l", "o", ":">>}]

\* label lab stands at offset p of s, in any letter case
LabelAt(s, p, lab) ==
  /\ p + Len(lab) <= Len(s)
  /\ \A j \in 1..Len(lab) : s[p + j] \in {lab[j], SwapCase(lab[j])}

\* one of the labels occurs in s
Occurs(s, labs) == \E lab \in labs : \E p \in 0..Len(s) : LabelAt(s, p, lab)

\* C1: every record returned by parse_text_to_records, and every record
\* appended on the way, has exactly the 16 keys of COLUMNS, none missing and
\* none extra, whichever labels matched in the text.
C1_ExactlyTheColumns ==
  /\ Cardinality(ColumnSet) = 16
  /\ \A i \in 1..Len(records) : DOMAIN records[i] = ColumnSet

\* a returned record of a block where some labels matched and others did not
C1_Witness ==
  /\ pc = "text_done" /\ Len(records) = 2
  /\ records[1].cidade = Str(<<>>) /\ records[2].cidade # Str(<<>>)
  /\ records[1].peso_pedido.t = "float" /\ records[2].peso_pedido = NoneV

\* C5: split_notes_blocks falls back to the "Pedido:" delimiter exactly when
\* the text has no line-start note-id token; with at least one note-id token
\* the boundaries are the note-id tokens and no "Pedido:" line is one; with
\* none and n line-start "Pedido: <digits>" occurrences there are exactly n
\* blocks, cut at those occurrences.
C5_FallbackOnlyWithoutNoteIds ==
  SplitDone =>
    LET noteIds == NoteIdStarts(text)
        pedidos == PedidoStarts(text)
        byNoteId == Ascending(noteIds) \o <<>>
        byPedido == Ascending(pedidos) \o <<>>
    IN  /\ usedFallback <=> noteIds = {}
        /\ noteIds # {} =>
             /\ Range(positions) = noteIds
             /\ Len(blocks) = Cardinality(noteIds)
             /\ CutsAt(blocks, text, byNoteId)
        /\ noteIds = {} =>
             /\ Len(blocks) = Cardinality(pedidos)
             /\ CutsAt(blocks, text, byPedido)

\* a text without note ids and with two "Pedido:" lines, split in two blocks
C5_Witness ==
  /\ pc = "text_done" /\ NoteIdStarts(text) = {}
  /\ Cardinality(PedidoStarts(text)) = 2 /\ Len(blocks) = 2
  /\ usedFallback

C9_BlocksPartitionTheText ==
  SplitDone =>
    /\ \A i \in 1..(Len(positions) - 1) : positions[i] < positions[i + 1]
    /\ \A i \in 1..Len(positions) : positions[i] \in 0..Len(text)
    /\ CutsAt(blocks, text, positions)

\* two blocks cut from a text that has a line before the first delimiter
C9_Witness ==
  /\ SplitDone /\ Len(positions) = 2 /\ positions[1] > 0
  /\ Len(blocks) = 2 /\ blocks[1] # blocks[2]

\* the offset where the line holding offset p ends
EndOfLine(s, p) ==
  IF \E j \in (p + 1)..Len(s) : s[j] = NL
  THEN Min({j \in (p + 1)..Len(s) : s[j] = NL}) - 1
  ELSE Len(s)

\* what follows on its own line the label of length n standing at offset p
LineValueAt(s, p, n) == strip(Slice(s, p + n, EndOfLine(s, p + n)))

\* v is empty, or is what follows an occurrence of the label on that line
FollowsLabel(v, s, labs) ==
  \/ v = <<>>
  \/ \E lab \in labs : \E p \in 0..Len(s) :
       LabelAt(s, p, lab) /\ v = LineValueAt(s, p, Len(lab))

\* the client fields are empty, or come from what follows "Nome:" on its line
ClientFollowsLabel(r, s) ==
  \/ r.codigo_cliente = Str(<<>>) /\ r.nome_cliente = Str(<<>>)
  \/ \E lab \in BlockLabels.nome_cliente : \E p \in 0..Len(s) :
       /\ LabelAt(s, p, lab)
       /\ LineValueAt(s, p, Len(lab)) # <<>>
       /\ <<r.codigo_cliente, r.nome_cliente>> = ClientOf(LineValueAt(s, p, Len(lab)))

\* C10: the value of each line-valued label ("Nome:", "Pedido:", "Cidade:",
\* "Endereco:" in a block; "Motorista:", "Veiculo:" in the header) is the text
\* that follows the label up to the end of that same line, never text of a
\* later line.
C10_ValueFromTheLabelsLine ==
  pc = "text_done" =>
    /\ \A k \in DOMAIN HeaderLabels : FollowsLabel(header[k].v, text, HeaderLabels[k])
    /\ \A i \in 1..Len(records) :
         /\ \A k \in {"pedido", "cidade", "endereco"} :
              FollowsLabel(records[i][k].v, blocks[i], BlockLabels[k])
         /\ ClientFollowsLabel(records[i], blocks[i])

----------------------------------------------------------------------------
(* Properties of parse_br_number *)

NotDot(c) == c # "."

\* the token with every "." removed and every "," turned into "."
Separated(s) ==
  [i \in 1..Len(SelectSeq(s, NotDot)) |->
     IF SelectSeq(s, NotDot)[i] = "," THEN "." ELSE SelectSeq(s, NotDot)[i]]

\* the token without its leading sign
Unsigned(s) == IF s # <<>> /\ s[1] \in {"+", "-"} THEN Tail(s) ELSE s

\* digits, with single underscores allowed between two digits
DigitGroups(s) ==
  /\ s # <<>> /\ s[1] \in Digit /\ s[Len(s)] \in Digit
  /\ \A i \in 1..Len(s) : s[i] \in Digit \/ (s[i] = "_" /\ s[i - 1] \in Digit /\ s[i + 1] \in Digit)

\* digits with at most one ".", at least one digit
IsMantissa(m) ==
  \/ DigitGroups(m)
  \/ \E d \in 1..Len(m) :
       /\ m[d] = "." /\ Len(m) > 1
       /\ d = 1 \/ DigitGroups(SubSeq(m, 1, d - 1))
       /\ d = Len(m) \/ DigitGroups(SubSeq(m, d + 1, Len(m)))

\* a decimal, with an optional sign and an optional exponent
IsDecimalLiteral(s) ==
  \/ IsMantissa(Unsigned(s))
  \/ \E e \in 1..Len(Unsigned(s)) :
       /\ Unsigned(s)[e] \in {"e", "E"}
       /\ IsMantissa(SubSeq(Unsigned(s), 1, e - 1))
       /\ DigitGroups(Unsigned(SubSeq(Unsigned(s), e + 1, Len(Unsigned(s)))))

\* a decimal of digits and at most one "." only, with an optional sign
IsPlainDecimal(s) ==
  /\ IsMantissa(Unsigned(s))
  /\ \A i \in 1..Len(Unsigned(s)) : Unsigned(s)[i] \in Digit \cup {"."}

\* the value of a plain decimal: its digits scaled by the digits after the "."
PlainValue(s, dot) ==
  Float((IF s[1] = "-" THEN -1 ELSE 1) * Normalize(ToInt(DigitsOf(s)), 0)[1],
        IF ToInt(DigitsOf(s)) = 0 THEN 0
        ELSE Normalize(ToInt(DigitsOf(s)), 0)[2] - (IF dot = 0 THEN 0 ELSE Len(s) - dot))

\* "inf", "infinity" or "nan" with an optional sign, in any letter case
IsSpecialLiteral(s) ==
  ToLower(Unsigned(s)) \in {<<"i", "n", "f">>, <<"i", "n", "f", "i", "n", "i", "t", "y">>,
                            <<"n", "a", "n">>}

\* the token of a string: stripped, separators rewritten, stripped again as
\* the number parser ignores surrounding whitespace
Token(value) == strip(Separated(strip(value.v)))

IsBlank(value) == value = NoneV \/ AllIn(value.v, 1, Len(value.v), Space)

\* C6 as stated: parse_br_number never raises; it returns null for null, ""
\* and whitespace; for another token it returns the parsed number when the
\* token with every "." removed and "," replaced by "." is a valid decimal
\* and null when it is not.
C6_NullUnlessDecimal ==
  pc = "num_done" =>
    /\ ~numOut.raised
    /\ IsBlank(numIn) => numOut.val = NoneV
    /\ ~IsBlank(numIn) =>
         IF IsDecimalLiteral(Token(numIn))
         THEN numOut.val.t = "float"
         ELSE numOut.val = NoneV

\* C6 amended: parse_br_number never raises; it returns null for null, ""
\* and whitespace; for another token it returns a number exactly when the
\* token with every "." removed and "," replaced by "." is a decimal literal
\* (surrounding whitespace aside, an exponent and single underscores between
\* digits allowed) or one of inf, infinity, nan (sign and letter case aside), and null
\* otherwise; a plain decimal gives its value, the special words give an
\* infinity or NaN.
C6_NullUnlessFloatLiteral ==
  pc = "num_done" =>
    /\ ~numOut.raised
    /\ IsBlank(numIn) => numOut.val = NoneV
    /\ ~IsBlank(numIn) =>
         /\ numOut.val.t \in {"float", "NoneType"}
         /\ numOut.val = NoneV <=>
              /\ ~IsDecimalLiteral(Token(numIn))
              /\ ~IsSpecialLiteral(Token(numIn))
         /\ IsPlainDecimal(Token(numIn)) =>
              numOut.val = PlainValue(Token(numIn),
                                      IndexOf(Token(numIn), {"."}))
         /\ IsSpecialLiteral(Token(numIn)) =>
              numOut.val \in {Inf(TRUE), Inf(FALSE), NaN}
    /\ numIn = Str(<<"5", ".", "4", "5", "8", ",", "9", "6">>)
         => numOut.val = Float(545896, -2)
    /\ numIn = Str(<<"1", ".", "2", "3", "4", ".", "5", "6", "7", ",", "8", "9">>)
         => numOut.val = Float(123456789, -2)
    /\ numIn \in {Str(<<"a", "b", "c">>), Str(<<"1", ",", "2", ",", "3">>)}
         => numOut.val = NoneV

\* the token "nan" is returned as a number
C6_Witness ==
  /\ pc = "num_done" /\ numIn = Str(<<"n", "a", "n">>)
  /\ numOut = Return(NaN)

----------------------------------------------------------------------------
(* Properties of format_date_br *)

TwoDigits(n) == <<DigitSeq[(n \div 10) + 1], DigitSeq[(n % 10) + 1]>>

\* dd/mm/yyyy of the date <<year, month, day>>
Canonical(date) ==
  TwoDigits(date[3]) \o <<"/">> \o TwoDigits(date[2]) \o <<"/">>
    \o TwoDigits(date[1] \div 100) \o TwoDigits(date[1] % 100)

\* C8: format_date_br never raises and never returns null; for a token that
\* parses as dd/mm/yyyy, or failing that as dd/mm/yy, it returns the
\* canonical dd/mm/yyyy form of the date; for any other token it returns the
\* input with only its surrounding whitespace removed.
C8_CanonicalOrStripped ==
  pc = "date_done" =>
    /\ ~dateOut.raised
    /\ dateOut.val.t = "str"
    /\ IF strptime(dateIn.v, TRUE).ok
       THEN dateOut.val.v = Canonical(strptime(dateIn.v, TRUE).val)
       ELSE IF strptime(dateIn.v, FALSE).ok
       THEN dateOut.val.v = Canonical(strptime(dateIn.v, FALSE).val)
       ELSE dateOut.val.v = strip(dateIn.v)

----------------------------------------------------------------------------
(* parse_pdf and the batch loop of main *)

\* page.extract_text() or ""
PageText(page) == IF page = NoneV THEN <<>> ELSE page.v

\* "\n".join(full_text_parts)
FullText(file) == join([i \in 1..Len(file.pages) |-> PageText(file.pages[i])])

\* pd.DataFrame(records, columns=COLUMNS): one row per record, the COLUMNS only
DataFrame(recs) ==
  [i \in 1..Len(recs) |->
     [k \in ColumnSet |-> IF k \in DOMAIN recs[i] THEN recs[i][k] ELSE NoneV]]

\* parse_pdf(file): pdfplumber raises on a file it cannot open or read
parse_pdf(file) ==
  IF file.corrupt THEN Raise
  ELSE Return(DataFrame(parse_text_to_records(FullText(file))))

\* df_pdf[column].apply(format_date_br) for the two date columns
NormalizeDates(df, pads) ==
  [i \in 1..Len(df) |->
     [df[i] EXCEPT !.data_emissao = format_date_br(@, pads),
                   !.data_previsao = format_date_br(@, pads)]]

\* does format_date_br raise on a date of the frame
DatesRaise(df, pads) ==
  \E i \in 1..Len(df) :
    \/ format_date_br_call(df[i].data_emissao, pads).raised
    \/ format_date_br_call(df[i].data_previsao, pads).raised

\* the branch the loop body takes, r being the outcome of parse_pdf
Outcome(r, pads) ==
  IF r.raised THEN "except"
  ELSE IF r.val = <<>> THEN "empty"            \* df_pdf.empty
  ELSE IF DatesRaise(r.val, pads) THEN "except"
  ELSE "append"

\* pd.concat(dataframes, ignore_index=True): the rows of the frames, in order
RECURSIVE concat(_)
concat(dfs) == IF dfs = <<>> THEN <<>> ELSE Head(dfs) \o concat(Tail(dfs))

MaxDocs == 3
HeaderPage ==
  <<"1", "2", " ", "S", "U", "L", NL, "E", "m", "i", "s", "s", a_tilde, "o", ":", " ",
    "0", "1", "/", "0", "2", "/", "2", "4">>
NotesPage ==
  <<"7", "4", "8", "-", "1", "2", "2", "6", "3", NL, "N", "o", "m", "e", ":", " ", "7",
    " ", "-", " ", "A", "n", "a", NL, "1", "5", "5", "2", "-", "2", "4", "9", "9", "5",
    " ", "C", "i", "d", "a", "d", "e", ":", " ", "R", "i", "o">>
PedidoPage ==
  <<"P", "e", "d", "i", "d", "o", ":", " ", "9", "9", NL, "N", "o", "m", "e", ":", " ",
    "7", " ", "-", " ", "A", "n", "a", NL, "P", "e", "d", "i", "d", "o", ":", " ", "9", "8">>
OtherPage ==
  <<"1", "2", " ", "S", "U", "L", NL, "C", "i", "d", "a", "d", "e", ":", " ", "R", "i", "o">>

\* the documents a batch is drawn from: a romaneio of three pages (one without
\* text), one with "Pedido:" lines only, one without notes, one unreadable
FilePool ==
  { [name |-> "notes.pdf", corrupt |-> FALSE,
     pages |-> <<Str(HeaderPage), NoneV, Str(NotesPage)>>],
    [name |-> "pedidos.pdf", corrupt |-> FALSE, pages |-> <<Str(PedidoPage)>>],
    [name |-> "other.pdf", corrupt |-> FALSE, pages |-> <<Str(OtherPage)>>],
    [name |-> "broken.pdf", corrupt |-> TRUE, pages |-> <<>>] }

InitBatch ==
  /\ pc = "main_start"
  /\ uploaded_files \in StringsUpTo(FilePool, MaxDocs)
  /\ fidx = 0 /\ dataframes = <<>> /\ messages = <<>> /\ df_all = <<>>
  /\ strftimePads \in BOOLEAN /\ IdleText /\ IdleNum /\ IdleDate

\* if not uploaded_files: st.info(...); return
NoFiles ==
  /\ pc = "main_start" /\ uploaded_files = <<>>
  /\ messages' = Append(messages, [call |-> "info", file |-> 0])
  /\ pc' = "main_done"
  /\ UNCHANGED <<uploaded_files, fidx, dataframes, df_all, strftimePads,
                 textVars, numVars, dateVars>>

\* dataframes = []
StartLoop ==
  /\ pc = "main_start" /\ uploaded_files # <<>>
  /\ dataframes' = <<>>
  /\ pc' = "main_loop"
  /\ UNCHANGED <<uploaded_files, fidx, messages, df_all, strftimePads,
                 textVars, numVars, dateVars>>

\* AppendFrame putting the new frame in front of the collected ones
PrependFrame ==
  /\ pc = "main_loop" /\ fidx < Len(uploaded_files)
  /\ Outcome(parse_pdf(uploaded_files[fidx + 1]), strftimePads) = "append"
  /\ dataframes' = <<NormalizeDates(parse_pdf(uploaded_files[fidx + 1]).val, strftimePads)>>
                      \o dataframes
  /\ fidx' = fidx + 1
  /\ UNCHANGED <<pc, uploaded_files, messages, df_all, strftimePads,
                 textVars, numVars, dateVars>>

\* a loop iteration on a document with notes: normalise the dates, append
AppendFrame ==
  /\ pc = "main_loop" /\ fidx < Len(uploaded_files)
  /\ Outcome(parse_pdf(uploaded_files[fidx + 1]), strftimePads) = "append"
  /\ dataframes' = Append(dataframes,
                          NormalizeDates(parse_pdf(uploaded_files[fidx + 1]).val, strftimePads))
  /\ fidx' = fidx + 1
  /\ UNCHANGED <<pc, uploaded_files, messages, df_all, strftimePads,
                 textVars, numVars, dateVars>>

\* WarnEmpty reporting the document the way a failure is reported
ErrorOnEmpty ==
  /\ pc = "main_loop" /\ fidx < Len(uploaded_files)
  /\ Outcome(parse_pdf(uploaded_files[fidx + 1]), strftimePads) = "empty"
  /\ messages' = Append(messages, [call |-> "error", file |-> fidx + 1])
  /\ fidx' = fidx + 1
  /\ UNCHANGED <<pc, uploaded_files, dataframes, df_all, strftimePads,
                 textVars, numVars, dateVars>>

\* a loop iteration on a document without notes: st.warning(...)
WarnEmpty ==
  /\ pc = "main_loop" /\ fidx < Len(uploaded_files)
  /\ Outcome(parse_pdf(uploaded_files[fidx + 1]), strftimePads) = "empty"
  /\ messages' = Append(messages, [call |-> "warning", file |-> fidx + 1])
  /\ fidx' = fidx + 1
  /\ UNCHANGED <<pc, uploaded_files, dataframes, df_all, strftimePads,
                 textVars, numVars, dateVars>>

\* ReportError with the try around the loop: the failure ends the loop
AbortOnError ==
  /\ pc = "main_loop" /\ fidx < Len(uploaded_files)
  /\ Outcome(parse_pdf(uploaded_files[fidx + 1]), strftimePads) = "except"
  /\ messages' = Append(messages, [call |-> "error", file |-> fidx + 1])
  /\ fidx' = Len(uploaded_files)
  /\ UNCHANGED <<pc, uploaded_files, dataframes, df_all, strftimePads,
                 textVars, numVars, dateVars>>

\* a loop iteration that raises: except Exception: st.error(...)
ReportError ==
  /\ pc = "main_loop" /\ fidx < Len(uploaded_files)
  /\ Outcome(parse_pdf(uploaded_files[fidx + 1]), strftimePads) = "except"
  /\ messages' = Append(messages, [call |-> "error", file |-> fidx + 1])
  /\ fidx' = fidx + 1
  /\ UNCHANGED <<pc, uploaded_files, dataframes, df_all, strftimePads,
                 textVars, numVars, dateVars>>

\* if not dataframes: st.warning(...); return
NoNotes ==
  /\ pc = "main_loop" /\ fidx = Len(uploaded_files) /\ dataframes = <<>>
  /\ messages' = Append(messages, [call |-> "warning", file |-> 0])
  /\ pc' = "main_done"
  /\ UNCHANGED <<uploaded_files, fidx, dataframes, df_all, strftimePads,
                 textVars, numVars, dateVars>>

\* df_all = pd.concat(dataframes, ignore_index=True), then shown and exported
Concat ==
  /\ pc = "main_loop" /\ fidx = Len(uploaded_files) /\ dataframes # <<>>
  /\ df_all' = concat(dataframes)
  /\ pc' = "main_done"
  /\ UNCHANGED <<uploaded_files, fidx, dataframes, messages, strftimePads,
                 textVars, numVars, dateVars>>

NextBatch ==
  NoFiles \/ StartLoop \/ AppendFrame \/ WarnEmpty \/ ReportError \/ NoNotes \/ Concat
SpecBatch == InitBatch /\ [][NextBatch]_vars

----------------------------------------------------------------------------
(* Properties of the batch loop *)

\* the rows a document gives the output, r being the outcome of parse_pdf:
\* none when it cannot be read
RowsGiven(r, pads) == IF r.raised THEN <<>> ELSE NormalizeDates(r.val, pads) \o <<>>
Contribution(file, pads) == RowsGiven(parse_pdf(file), pads)

\* the contribution of each document of a batch
Contributions(files, pads) == [i \in 1..Len(files) |-> Contribution(files[i], pads)] \o <<>>

\* the number of rows of the parts before part number i
RowsBefore(parts, i) ==
  Cardinality(UNION {{<<k, j>> : j \in 1..Len(parts[k])} : k \in 1..(i - 1)})

\* all is the parts one after the other: row j of part i is row number
\* (rows before part i) + j of all, and all has no other row
IsConcatenation(all, parts) ==
  /\ Len(all) = RowsBefore(parts, Len(parts) + 1)
  /\ \A i \in 1..Len(parts) : \A j \in 1..Len(parts[i]) :
       all[RowsBefore(parts, i) + j] = parts[i][j]

\* the note-id token digits-digits that stands at offset p
TokenEnd(s, dash) ==
  IF \E j \in (dash + 1)..Len(s) : s[j] \notin Digit
  THEN Min({j \in (dash + 1)..Len(s) : s[j] \notin Digit}) - 1
  ELSE Len(s)
NoteIdToken(s, p) ==
  SubSeq(s, p + 1, TokenEnd(s, Min({j \in (p + 1)..Len(s) : s[j] = "-"})))

\* the note-id tokens of a text in the order they stand in it
NoteIdsInOrder(s) ==
  LET starts == NoteIdStarts(s)
      order == Ascending(starts) \o <<>>
  IN  [j \in 1..Len(order) |-> NoteIdToken(s, order[j])]

Processed == 1..fidx
HasMessage(call, i) == [call |-> call, file |-> i] \in Range(messages)

\* the numero_nota column of some rows
NumeroNota(rows) == [j \in 1..Len(rows) |-> rows[j].numero_nota.v]

\* C2 for a batch whose documents contribute cs
ConcatenatedInOrder(cs) ==
  /\ dataframes = SelectSeq(SubSeq(cs, 1, fidx), NonEmpty)
  /\ pc = "main_done" /\ dataframes # <<>> => IsConcatenation(df_all, cs)
  /\ \A i \in Processed :
       LET full_text == FullText(uploaded_files[i])
           ids == NoteIdsInOrder(full_text)
       IN  ~uploaded_files[i].corrupt /\ ids # <<>> => NumeroNota(cs[i]) = ids

\* C2: the output is the concatenation of the documents' record sequences in
\* submission order, each in the order of its notes in the text; no record
\* is reordered, dropped or deduplicated, and a document without records
\* leaves the order of the others' records as it is.
C2_ConcatenationInSubmissionOrder ==
  pc \in {"main_loop", "main_done"} =>
    LET cs == Contributions(uploaded_files, strftimePads) IN ConcatenatedInOrder(cs)

\* the same document twice around an unreadable one: its two records twice
C2_Witness ==
  /\ pc = "main_done" /\ Len(uploaded_files) = 3
  /\ uploaded_files[1] = uploaded_files[3] /\ uploaded_files[2].corrupt
  /\ Len(df_all) = 4 /\ df_all[1] = df_all[3] /\ df_all[2] = df_all[4]
  /\ df_all[1] # df_all[2]

\* C3 for a batch whose documents contribute cs
FailuresSkipped(cs) ==
  /\ fidx = Len(uploaded_files)
  /\ \A i \in 1..Len(uploaded_files) :
       /\ uploaded_files[i].corrupt <=> HasMessage("error", i)
       /\ \A j \in 1..Len(cs[i]) : cs[i][j] \in Range(df_all)
  /\ Cardinality({m \in 1..Len(messages) : messages[m].call = "error"})
       = Cardinality({i \in 1..Len(uploaded_files) : uploaded_files[i].corrupt})

\* C3: a document whose processing raises is reported as an error, it alone;
\* the loop goes on to every later document, and the records of the earlier
\* and of the later documents are all in the output.
C3_FailureSkipsOneDocument ==
  pc = "main_done" /\ uploaded_files # <<>> =>
    LET cs == Contributions(uploaded_files, strftimePads) IN FailuresSkipped(cs)

\* an unreadable document between two different documents with notes
C3_Witness ==
  /\ pc = "main_done" /\ Len(uploaded_files) = 3
  /\ parse_pdf(uploaded_files[2]).raised
  /\ messages = <<[call |-> "error", file |-> 2]>>
  /\ uploaded_files[1] # uploaded_files[3]
  /\ Len(dataframes) = 2 /\ df_all = dataframes[1] \o dataframes[2]

\* the document has text to read and no delimiter of either kind in it
NoDelimiter(file) ==
  /\ ~file.corrupt
  /\ NoteIdStarts(FullText(file)) = {}
  /\ PedidoStarts(FullText(file)) = {}

\* C4 for a batch whose documents contribute cs
EmptyIsWarned(cs) ==
  /\ \A i \in Processed :
       NoDelimiter(uploaded_files[i]) =>
          /\ split_notes_blocks(FullText(uploaded_files[i])) = <<>>
          /\ cs[i] = <<>>
          /\ HasMessage("warning", i) /\ ~HasMessage("error", i)
  /\ \A d \in 1..Len(dataframes) : dataframes[d] # <<>>
  /\ Len(dataframes) = Cardinality({i \in Processed : cs[i] # <<>>})

\* C4: a document whose text has neither a line-start note id nor a
\* line-start "Pedido: <digits>" gives no block and no record without
\* raising; the loop reports it with a warning, never with the error of a
\* failure, and appends nothing for it.
C4_NoNotesIsAWarning ==
  LET cs == Contributions(uploaded_files, strftimePads) IN EmptyIsWarned(cs)

\* a document without notes, warned about, before one with notes
C4_Witness ==
  /\ pc = "main_done" /\ Len(uploaded_files) = 2
  /\ NoDelimiter(uploaded_files[1]) /\ FullText(uploaded_files[1]) # <<>>
  /\ messages = <<[call |-> "warning", file |-> 1]>>
  /\ Len(dataframes) = 1 /\ df_all = dataframes[1]

====
